---- MODULE Spec2Model ----
(***************************************************************************)
(* Model of the face_acces repository: the SQLite identity store           *)
(* (db/face_database.py), the cosine-distance matcher (main.py), the       *)
(* camera session (utils/camera.py) and the two workflows                  *)
(* (admin.register_new_user, main.main_loop).  Two enrollment processes   *)
(* writing one database file are modelled by SpecConcurrent.               *)
(*                                                                         *)
(* Numbers: embedding components are small integers (exactly representable *)
(* floats).  Results of sqrt and of division are fixed-point numbers with  *)
(* Scale units per 1.0, rounded to nearest, so that rounding noise exists  *)
(* in the model as it does in IEEE arithmetic.                             *)
(***************************************************************************)
EXTENDS Integers, Sequences, FiniteSets, TLC

VARIABLES
    tableExists,  \* the users relation exists in the database file
    rows,         \* the users relation, in rowid (insertion) order
    firstAdd,     \* history: user_id -> embedding of the add_user that committed it
    call,         \* the last store / matcher call: arguments and outcome
    txn,          \* per enrollment process: its add_user call in progress
    cap,          \* CameraCapture.cap: 0 for None, else the VideoCapture handle
    is_connected, \* CameraCapture.is_connected
    hstate,       \* per VideoCapture handle: "unused", "open", "closed", "released"
    hreleases,    \* per VideoCapture handle: calls of its release()
    camCall,      \* the last CameraCapture call and what it returned
    pc,           \* where the running workflow is
    exit,         \* how the workflow's try block was left
    user_name,    \* register_new_user: name
    face_embedding, \* register_new_user: embedding
    faces,        \* len(faces) of the last detect_faces (-1: none yet)
    face_idx,     \* main_loop: faces of the current frame already processed
    render,       \* main_loop: the last draw_face_box_and_label call
    log           \* what the running workflow has done and printed, in order

storeVars == <<tableExists, rows, firstAdd, call, txn>>

camVars == <<cap, is_connected, hstate, hreleases, camCall>>

wfVars == <<pc, exit, user_name, face_embedding, faces, face_idx, render, log>>

vars == <<tableExists, rows, firstAdd, call, txn, cap, is_connected, hstate, hreleases,
          camCall, pc, exit, user_name, face_embedding, faces, face_idx, render, log>>

(***************************************************************************)
(* Bounds and input sets                                                   *)
(***************************************************************************)
Scale == 2002
MaxRows == 2
MaxHandles == 3
MaxFaces == 2

Inf == 1000000000

NoneId == "<None>"
UserIds == {"alice", "bob", "unknown_guy"}
Names == {"Alice"}

\* Embeddings offered to the store and probes offered to the matcher: the
\* zero vector, unit vectors, a diagonal, an opposite vector and a vector of
\* another dimension, and a vector of three components whose norm is rounded
\* upwards.
Vectors == [1..2 -> {0, 1}] \cup {<<-1, 0>>, <<1>>, <<1, 1, 1>>}

\* Thresholds: zero, the smallest positive value, the next one, the
\* configured value, exactly 1.0, above the largest distance, and infinity.
verification_threshold == (6 * Scale) \div 10
Thresholds == {0, 1, 2, verification_threshold, Scale, 2 * Scale + 1, Inf}

DbFaults == {"none", "connect", "execute", "commit"}

(***************************************************************************)
(* json.dumps / json.loads of a list of numbers, as a token sequence       *)
(***************************************************************************)
Tok(t, v) == [t |-> t, v |-> v]

\* A serialisation that keeps six decimals of numbers given in units of 1e-9.
json_dumps_rounded(embedding) ==
    [i \in 1..(2 * Len(embedding) + 1) |->
        IF i = 1 THEN Tok("[", 0)
        ELSE IF i = 2 * Len(embedding) + 1 THEN Tok("]", 0)
        ELSE IF i % 2 = 0
        THEN Tok("num", ((2 * embedding[i \div 2] + 1000) \div 2000) * 1000)
        ELSE Tok(",", 0)]

json_dumps(embedding) ==
    [i \in 1..(2 * Len(embedding) + 1) |->
        IF i = 1 THEN Tok("[", 0)
        ELSE IF i = 2 * Len(embedding) + 1 THEN Tok("]", 0)
        ELSE IF i % 2 = 0 THEN Tok("num", embedding[i \div 2])
        ELSE Tok(",", 0)]

json_loads(embedding_str) ==
    [i \in 1..((Len(embedding_str) - 1) \div 2) |-> embedding_str[2 * i].v]

(***************************************************************************)
(* The users relation                                                      *)
(***************************************************************************)
Row(user_id, name, embedding_str) ==
    [user_id |-> user_id, name |-> name, embedding_json |-> embedding_str]

StoredIds(rs) == {rs[i].user_id : i \in 1..Len(rs)}

\* SELECT embedding_json FROM users WHERE user_id = ?  (fetchone)
SelectRow(rs, user_id) ==
    CHOOSE i \in 1..Len(rs) : rs[i].user_id = user_id

\* The outcome of a call.
\* op, id, vec, thr, fault: the call and its arguments; exc: the exception it
\* raised ("" when it returned); rnone: it returned None; rid, rvec, rdist: the
\* id, vector and distance it returned; divzero: it divided by zero.
Outcome(op, id, vec, thr, fault, exc, rnone, rid, rvec, rdist) ==
    [op |-> op, id |-> id, vec |-> vec, thr |-> thr, fault |-> fault,
     exc |-> exc, rnone |-> rnone, rid |-> rid, rvec |-> rvec, rdist |-> rdist,
     divzero |-> FALSE]

NoCall == Outcome("none", NoneId, <<>>, 0, "none", "", TRUE, NoneId, <<>>, 0)

Raised(op, id, vec, thr, fault, exc) ==
    Outcome(op, id, vec, thr, fault, exc, TRUE, NoneId, <<>>, 0)

ReturnedNone(op, id, vec, thr, fault) ==
    Outcome(op, id, vec, thr, fault, "", TRUE, NoneId, <<>>, 0)

\* An exception raised by sqlite3.connect leaves the local conn unbound, and
\* the finally clause's "if conn:" then raises UnboundLocalError in its place.
ConnectFailure == "UnboundLocalError"

\* The enrollment processes (admin.py runs) that share the database file.
Procs == {"p1", "p2"}

\* A process that is not inside add_user.
\* pc: where its add_user call is; id, vec: the arguments; exc: the exception
\* the call raised ("" when it returned); conc: history, the call overlapped
\* a call of the other process.
Idle == [pc |-> "idle", id |-> NoneId, vec |-> <<>>, exc |-> "", conc |-> FALSE]

PrimaryKeyNotEnforced(rs, user_id) == FALSE

\* PRIMARY KEY constraint of CREATE_TABLE_SQL on INSERT.
PrimaryKeyViolated(rs, user_id) == user_id \in StoredIds(rs)

InsertRowReplacing(rs, user_id, name, embedding_str) ==
    <<Row(user_id, name, embedding_str)>>

\* INSERT INTO users ... : the relation after the statement.
InsertRow(rs, user_id, name, embedding_str) ==
    Append(rs, Row(user_id, name, embedding_str))

\* DROP TABLE followed by CREATE TABLE.
initialize_database_recreating(fault) ==
    /\ fault \in {"none", "connect", "execute"}
    /\ UNCHANGED txn
    /\ IF fault = "connect"
       THEN /\ call' = Raised("initialize_database", NoneId, <<>>, 0, fault, ConnectFailure)
            /\ UNCHANGED <<tableExists, rows, firstAdd>>
       ELSE IF fault = "execute"
       THEN /\ call' = Raised("initialize_database", NoneId, <<>>, 0, fault, "sqlite3.Error")
            /\ UNCHANGED <<tableExists, rows, firstAdd>>
       ELSE /\ tableExists' = TRUE
            /\ rows' = <<>>
            /\ call' = ReturnedNone("initialize_database", NoneId, <<>>, 0, fault)
            /\ UNCHANGED firstAdd

initialize_database(fault) ==
    /\ fault \in {"none", "connect", "execute"}
    /\ UNCHANGED txn
    /\ IF fault = "connect"
       THEN /\ call' = Raised("initialize_database", NoneId, <<>>, 0, fault, ConnectFailure)
            /\ UNCHANGED <<tableExists, rows, firstAdd>>
       ELSE IF fault = "execute"
       THEN /\ call' = Raised("initialize_database", NoneId, <<>>, 0, fault, "sqlite3.Error")
            /\ UNCHANGED <<tableExists, rows, firstAdd>>
       ELSE /\ tableExists' = TRUE
            /\ call' = ReturnedNone("initialize_database", NoneId, <<>>, 0, fault)
            /\ UNCHANGED <<rows, firstAdd>>

EmptyVectorAllowed(embedding) == FALSE

\* not isinstance(embedding, list) or len(embedding) == 0
InvalidVector(embedding) == Len(embedding) = 0

add_user(user_id, name, embedding, fault) ==
    /\ UNCHANGED txn
    /\ IF InvalidVector(embedding)
       THEN /\ call' = Raised("add_user", user_id, embedding, 0, fault, "ValueError")
            /\ UNCHANGED <<tableExists, rows, firstAdd>>
       ELSE IF fault = "connect"
       THEN /\ call' = Raised("add_user", user_id, embedding, 0, fault, ConnectFailure)
            /\ UNCHANGED <<tableExists, rows, firstAdd>>
       ELSE IF fault = "execute" \/ ~tableExists
       THEN /\ call' = Raised("add_user", user_id, embedding, 0, fault, "sqlite3.Error")
            /\ UNCHANGED <<tableExists, rows, firstAdd>>
       ELSE IF PrimaryKeyViolated(rows, user_id)
       THEN /\ call' = Raised("add_user", user_id, embedding, 0, fault, "IntegrityError")
            /\ UNCHANGED <<tableExists, rows, firstAdd>>
       ELSE IF fault = "commit"
       THEN /\ call' = Raised("add_user", user_id, embedding, 0, fault, "sqlite3.Error")
            /\ UNCHANGED <<tableExists, rows, firstAdd>>
       ELSE /\ Len(rows) < MaxRows
            /\ rows' = InsertRow(rows, user_id, name, json_dumps(embedding))
            /\ firstAdd' = [i \in DOMAIN firstAdd \cup {user_id} |->
                               IF i = user_id THEN embedding ELSE firstAdd[i]]
            /\ call' = ReturnedNone("add_user", user_id, embedding, 0, fault)
            /\ UNCHANGED tableExists

\* What get_user_embedding returns for a readable relation: <<found, vector>>.
GetEmbedding(rs, user_id) ==
    IF user_id \in StoredIds(rs)
    THEN <<TRUE, json_loads(rs[SelectRow(rs, user_id)].embedding_json)>>
    ELSE <<FALSE, <<>>>>

get_user_embedding(user_id, fault) ==
    /\ fault \in {"none", "connect", "execute"}
    /\ UNCHANGED <<tableExists, rows, firstAdd, txn>>
    /\ IF fault = "connect"
       THEN call' = Raised("get_user_embedding", user_id, <<>>, 0, fault, ConnectFailure)
       ELSE IF fault = "execute" \/ ~tableExists
       THEN call' = Raised("get_user_embedding", user_id, <<>>, 0, fault, "sqlite3.Error")
       ELSE call' = Outcome("get_user_embedding", user_id, <<>>, 0, fault, "",
                            ~GetEmbedding(rows, user_id)[1], NoneId,
                            GetEmbedding(rows, user_id)[2], 0)

(***************************************************************************)
(* Arithmetic of find_best_match                                           *)
(***************************************************************************)
RECURSIVE SumTo(_, _)
SumTo(f, n) == IF n = 0 THEN 0 ELSE f[n] + SumTo(f, n - 1)

\* np.dot of two 1-D arrays of equal length.
Dot(a, b) == SumTo([i \in 1..Len(a) |-> a[i] * b[i]], Len(a))

\* Round-to-nearest quotient, b > 0.
RoundDiv(a, b) == (2 * a + b) \div (2 * b)

RECURSIVE FloorSqrt(_, _, _)
FloorSqrt(x, lo, hi) ==
    IF hi - lo <= 1 THEN lo
    ELSE LET mid == (lo + hi) \div 2
         IN  IF mid * mid <= x THEN FloorSqrt(x, mid, hi) ELSE FloorSqrt(x, lo, mid)

\* sqrt(q) in fixed point, rounded to nearest.
RoundSqrt(q) ==
    LET x == q * Scale * Scale
        r == FloorSqrt(x, 0, (q + 1) * Scale)
    IN  IF x - r * r > r THEN r + 1 ELSE r

\* np.linalg.norm, in fixed point.
Norm(a) == RoundSqrt(Dot(a, a))

\* A float division by zero gives nan (numpy warns, it does not raise), and nan
\* is less than no number: it is modelled as a value above Inf.
NaN == Inf + 1

SimilarityAsDistance(dot_product, norm_new, norm_db) ==
    LET norm_product == RoundDiv(norm_new * norm_db, Scale)
    IN  IF norm_product = 0 THEN NaN
        ELSE RoundDiv(dot_product * Scale * Scale, norm_product)

\* 1 - dot_product / (norm_new * norm_db), in fixed point.
CosineDistance(dot_product, norm_new, norm_db) ==
    LET norm_product == RoundDiv(norm_new * norm_db, Scale)
    IN  IF norm_product = 0 THEN NaN
        ELSE Scale - RoundDiv(dot_product * Scale * Scale, norm_product)

SkipEntryProbeOnly(norm_new, norm_db) == norm_new = 0

\* The zero-norm test of the scan.
SkipEntry(norm_new, norm_db) == norm_new = 0 \/ norm_db = 0

ImprovesOrTies(cosine_distance, best_distance) == cosine_distance <= best_distance

\* The test that replaces the running minimum.
Improves(cosine_distance, best_distance) == cosine_distance < best_distance

AcceptsWithoutCandidate(best_match_id, best_distance, threshold) ==
    best_distance <= threshold

AcceptsAtThreshold(best_match_id, best_distance, threshold) ==
    best_match_id # NoneId /\ best_distance <= threshold

\* The threshold decision after the scan.
Accepts(best_match_id, best_distance, threshold) ==
    best_match_id # NoneId /\ best_distance < threshold

\* The scan over the fetched rows, from row i on, with the running minimum.
\* The result is <<exc, best_match_id, best_distance, divzero>>; np.dot raises
\* ValueError on arrays of different lengths.
RECURSIVE Scan(_, _, _, _, _, _)
Scan(new_embedding, rs, i, best_match_id, best_distance, divzero) ==
    IF i > Len(rs) THEN <<"", best_match_id, best_distance, divzero>>
    ELSE LET user_id == rs[i].user_id
             db_embedding == json_loads(rs[i].embedding_json)
             norm_new == Norm(new_embedding)
             norm_db == Norm(db_embedding)
             cosine_distance ==
                 CosineDistance(Dot(new_embedding, db_embedding), norm_new, norm_db)
         IN  IF Len(db_embedding) # Len(new_embedding)
             THEN <<"ValueError", best_match_id, best_distance, divzero>>
             ELSE IF SkipEntry(norm_new, norm_db)
             THEN Scan(new_embedding, rs, i + 1, best_match_id, best_distance, divzero)
             ELSE IF Improves(cosine_distance, best_distance)
             THEN Scan(new_embedding, rs, i + 1, user_id, cosine_distance,
                       divzero \/ cosine_distance = NaN)
             ELSE Scan(new_embedding, rs, i + 1, best_match_id, best_distance,
                       divzero \/ cosine_distance = NaN)

\* The gallery as it was before the last committed row.
fetchall_stale(rs) == IF rs = <<>> THEN rs ELSE SubSeq(rs, 1, Len(rs) - 1)

\* cursor.execute(select_all_sql); rows = cursor.fetchall(): the committed
\* rows at the time of the call.
fetchall(rs) == rs

find_best_match(new_embedding, threshold, fault) ==
    /\ fault \in {"none", "connect", "execute"}
    /\ UNCHANGED <<tableExists, rows, firstAdd, txn>>
    /\ IF fault = "connect"
       THEN call' = Raised("find_best_match", NoneId, new_embedding, threshold, fault,
                           ConnectFailure)
       ELSE IF fault = "execute" \/ ~tableExists
       THEN call' = ReturnedNone("find_best_match", NoneId, new_embedding, threshold, fault)
       ELSE LET s == Scan(new_embedding, fetchall(rows), 1, NoneId, Inf, FALSE)
                raised == Raised("find_best_match", NoneId, new_embedding, threshold,
                                 fault, s[1])
                none == ReturnedNone("find_best_match", NoneId, new_embedding,
                                     threshold, fault)
            IN  IF s[1] # ""
                THEN call' = [raised EXCEPT !.divzero = s[4]]
                ELSE IF Accepts(s[2], s[3], threshold)
                THEN call' = [none EXCEPT !.rnone = FALSE, !.rid = s[2],
                                          !.rdist = s[3], !.divzero = s[4]]
                ELSE call' = [none EXCEPT !.divzero = s[4]]

(***************************************************************************)
(* CameraCapture (utils/camera.py).  cv2.VideoCapture is the environment:  *)
(* its constructor returns a handle or raises, isOpened() answers or       *)
(* raises, read() delivers a frame, delivers none, or raises.  Its         *)
(* release() does not raise.                                               *)
(***************************************************************************)
Handles == 1..MaxHandles

UnusedHandles == {h \in Handles : hstate[h] = "unused"}

\* The handle the next cv2.VideoCapture(source) returns.
NewHandle == CHOOSE h \in UnusedHandles : \A g \in UnusedHandles : h <= g

ConnectOutcomes == {"opened", "notopened", "ctor_raises", "isopened_raises"}

ReadOutcomes == {"frame", "noframe_open", "noframe_closed", "raises"}

\* op: the method; outcome: what cv2 did; ret: the success flag returned;
\* handle: the handle the call created (0: none); was_connected: is_connected
\* and cap was set when the call began; prev: the method called before.
CamOutcome(op, outcome, ret, handle) ==
    [op |-> op, outcome |-> outcome, ret |-> ret, handle |-> handle,
     was_connected |-> (is_connected /\ cap # 0), prev |-> camCall.op]

NoCamCall ==
    [op |-> "none", outcome |-> "none", ret |-> FALSE, handle |-> 0,
     was_connected |-> FALSE, prev |-> "none"]

\* An embedding variable: None, or a list of numbers.
NoEmbedding == [none |-> TRUE, vec |-> <<>>]

SomeEmbedding(v) == [none |-> FALSE, vec |-> v]

\* A draw_face_box_and_label call: label kind, label and box colour.
NoRender == [kind |-> "none", label |-> "", color |-> "none"]

\* A new database file (no relation yet), no CameraCapture object yet, and a
\* workflow about to start.
Init ==
    /\ tableExists = FALSE
    /\ rows = <<>>
    /\ firstAdd = <<>>
    /\ call = NoCall
    /\ txn = [p \in Procs |-> Idle]
    /\ cap = 0
    /\ is_connected = FALSE
    /\ hstate = [h \in Handles |-> "unused"]
    /\ hreleases = [h \in Handles |-> 0]
    /\ camCall = NoCamCall
    /\ pc = "start"
    /\ exit = "none"
    /\ user_name = ""
    /\ face_embedding = NoEmbedding
    /\ faces = -1
    /\ face_idx = 0
    /\ render = NoRender
    /\ log = <<>>

\* self.cap.release() on handle h, after hs and hr.
CapRelease(hs, hr, h) ==
    /\ hstate' = [hs EXCEPT ![h] = "released"]
    /\ hreleases' = [hr EXCEPT ![h] = @ + 1]

OpenFailedNoRelease(h) ==
    /\ is_connected' = FALSE
    /\ hstate' = [hstate EXCEPT ![h] = "closed"]
    /\ hreleases' = hreleases
    /\ cap' = 0

\* The else branch and the except branch of connect, with self.cap = h.
OpenFailed(h) ==
    /\ is_connected' = FALSE
    /\ CapRelease([hstate EXCEPT ![h] = "closed"], hreleases, h)
    /\ cap' = 0

connect(outcome) ==
    /\ outcome \in ConnectOutcomes
    /\ IF outcome = "ctor_raises"
       THEN /\ camCall' = CamOutcome("connect", outcome, FALSE, 0)
            /\ IF cap # 0
               THEN OpenFailed(cap)
               ELSE /\ is_connected' = FALSE
                    /\ UNCHANGED <<cap, hstate, hreleases>>
       ELSE /\ UnusedHandles # {}
            /\ camCall' = CamOutcome("connect", outcome, outcome = "opened", NewHandle)
            /\ IF outcome = "opened"
               THEN /\ cap' = NewHandle
                    /\ hstate' = [hstate EXCEPT ![NewHandle] = "open"]
                    /\ is_connected' = TRUE
                    /\ UNCHANGED hreleases
               ELSE OpenFailed(NewHandle)

ConnectedAlwaysFalse(opened) == FALSE

\* self.is_connected = self.cap.isOpened() after a read without a frame.
ConnectedAfterFailedRead(opened) == opened

NotReadableBoth == ~is_connected /\ cap = 0

\* if not self.is_connected or self.cap is None
NotReadable == ~is_connected \/ cap = 0

read_frame(outcome) ==
    /\ outcome \in ReadOutcomes
    /\ IF NotReadable
       THEN /\ camCall' = CamOutcome("read_frame", "not_connected", FALSE, 0)
            /\ UNCHANGED <<cap, is_connected, hstate, hreleases>>
       ELSE /\ camCall' = CamOutcome("read_frame", outcome, outcome = "frame", 0)
            /\ IF outcome \in {"noframe_open", "noframe_closed"}
               THEN /\ is_connected' = ConnectedAfterFailedRead(outcome = "noframe_open")
                    /\ hstate' = IF outcome = "noframe_closed"
                                 THEN [hstate EXCEPT ![cap] = "closed"]
                                 ELSE hstate
                    /\ UNCHANGED <<cap, hreleases>>
               ELSE UNCHANGED <<cap, is_connected, hstate, hreleases>>

release_keeps_cap ==
    /\ camCall' = CamOutcome("release", "none", FALSE, 0)
    /\ IF cap # 0
       THEN /\ hreleases[cap] < 2
            /\ CapRelease(hstate, hreleases, cap)
            /\ is_connected' = FALSE
            /\ UNCHANGED cap
       ELSE UNCHANGED <<cap, is_connected, hstate, hreleases>>

release ==
    /\ camCall' = CamOutcome("release", "none", FALSE, 0)
    /\ IF cap # 0
       THEN /\ CapRelease(hstate, hreleases, cap)
            /\ cap' = 0
            /\ is_connected' = FALSE
       ELSE UNCHANGED <<cap, is_connected, hstate, hreleases>>

(***************************************************************************)
(* SpecCam: one CameraCapture under arbitrary calls.  The constructor      *)
(* makes the first connect().                                              *)
(***************************************************************************)
Constructed == camCall.op # "none"

CamConnect ==
    /\ \E outcome \in ConnectOutcomes : connect(outcome)
    /\ UNCHANGED <<storeVars, wfVars>>

CamReadFrame ==
    /\ Constructed
    /\ \E outcome \in ReadOutcomes : read_frame(outcome)
    /\ UNCHANGED <<storeVars, wfVars>>

CamRelease ==
    /\ Constructed
    /\ release
    /\ UNCHANGED <<storeVars, wfVars>>

CamNext == CamConnect \/ CamReadFrame \/ CamRelease

SpecCam == Init /\ [][CamNext]_vars

(***************************************************************************)
(* SpecStore: the identity store under arbitrary calls, with storage       *)
(* faults.  The matcher reads the same relation.                           *)
(***************************************************************************)
StoreVectors == {<<1, 0>>, <<0, 1>>}

StoreInitialize ==
    /\ \E fault \in DbFaults : initialize_database(fault)
    /\ UNCHANGED <<camVars, wfVars>>

StoreAdd ==
    /\ \E user_id \in UserIds, name \in Names, embedding \in StoreVectors \cup {<<>>},
          fault \in DbFaults :
           add_user(user_id, name, embedding, fault)
    /\ UNCHANGED <<camVars, wfVars>>

StoreGet ==
    /\ \E user_id \in UserIds, fault \in DbFaults : get_user_embedding(user_id, fault)
    /\ UNCHANGED <<camVars, wfVars>>

StoreMatch ==
    /\ \E new_embedding \in StoreVectors, fault \in DbFaults :
        find_best_match(new_embedding, verification_threshold, fault)
    /\ UNCHANGED <<camVars, wfVars>>

StoreNext == StoreInitialize \/ StoreAdd \/ StoreGet \/ StoreMatch

SpecStore == Init /\ [][StoreNext]_vars

(***************************************************************************)
(* SpecRoundTrip: add_user and get_user_embedding on vectors of several    *)
(* lengths whose components are given in units of 1e-9, among them the     *)
(* vector [0.123456789, -0.987654321, 0.0].                                *)
(***************************************************************************)
RoundTripVectors ==
    {<<123456789, -987654321, 0>>, <<-987654321, 123456789>>, <<0>>, <<1>>}

RoundTripInitialize ==
    /\ \E fault \in DbFaults : initialize_database(fault)
    /\ UNCHANGED <<camVars, wfVars>>

RoundTripAdd ==
    /\ \E user_id \in UserIds, name \in Names, embedding \in RoundTripVectors,
          fault \in DbFaults :
           add_user(user_id, name, embedding, fault)
    /\ UNCHANGED <<camVars, wfVars>>

RoundTripGet ==
    /\ \E user_id \in UserIds, fault \in DbFaults : get_user_embedding(user_id, fault)
    /\ UNCHANGED <<camVars, wfVars>>

RoundTripNext == RoundTripInitialize \/ RoundTripAdd \/ RoundTripGet

SpecRoundTrip == Init /\ [][RoundTripNext]_vars

(***************************************************************************)
(* Two enrollment processes in add_user on one database file.  SQLite      *)
(* admits one writer: the INSERT takes the write lock of the file and the  *)
(* commit gives it back; a connection that finds the lock taken waits, and *)
(* after the timeout of sqlite3.connect its statement fails with           *)
(* OperationalError (database is locked), a sqlite3.Error.                 *)
(***************************************************************************)
ConcIds == {"alice", "bob"}

InAddUser(p) == txn[p].pc \in {"execute", "commit"}

\* The process whose INSERT is executed and not committed holds the lock.
WriteLocked == \E p \in Procs : txn[p].pc = "commit"

ConcInitialize ==
    /\ ~tableExists
    /\ \A p \in Procs : txn[p] = Idle
    /\ tableExists' = TRUE
    /\ call' = ReturnedNone("initialize_database", NoneId, <<>>, 0, "none")
    /\ UNCHANGED <<rows, firstAdd, txn, camVars, wfVars>>

\* add_user up to the INSERT: the argument check, sqlite3.connect, json.dumps.
AddBegin(p) ==
    /\ tableExists
    /\ txn[p].pc = "idle"
    /\ \E user_id \in ConcIds, embedding \in StoreVectors :
          /\ ~InvalidVector(embedding)
          /\ txn' = [q \in Procs |->
                       IF q = p
                       THEN [pc |-> "execute", id |-> user_id, vec |-> embedding,
                             exc |-> "", conc |-> \E r \in Procs \ {p} : InAddUser(r)]
                       ELSE [txn[q] EXCEPT !.conc = @ \/ InAddUser(q)]]
    /\ UNCHANGED <<tableExists, rows, firstAdd, call, camVars, wfVars>>

\* cursor.execute(insert_sql, ...) with the write lock free: the PRIMARY KEY
\* is checked against the committed rows.
AddExecute(p) ==
    /\ txn[p].pc = "execute"
    /\ ~WriteLocked
    /\ IF PrimaryKeyViolated(rows, txn[p].id)
       THEN /\ txn' = [txn EXCEPT ![p].pc = "done", ![p].exc = "IntegrityError"]
            /\ call' = Raised("add_user", txn[p].id, txn[p].vec, 0, "none",
                              "IntegrityError")
       ELSE /\ Len(rows) < MaxRows
            /\ txn' = [txn EXCEPT ![p].pc = "commit"]
            /\ call' = call
    /\ UNCHANGED <<tableExists, rows, firstAdd, camVars, wfVars>>

\* cursor.execute(insert_sql, ...) while the other process holds the write
\* lock for longer than the timeout: except sqlite3.Error, re-raised.
AddLocked(p) ==
    /\ txn[p].pc = "execute"
    /\ WriteLocked
    /\ txn' = [txn EXCEPT ![p].pc = "done", ![p].exc = "sqlite3.Error"]
    /\ call' = Raised("add_user", txn[p].id, txn[p].vec, 0, "locked", "sqlite3.Error")
    /\ UNCHANGED <<tableExists, rows, firstAdd, camVars, wfVars>>

\* conn.commit() and the finally clause.
AddCommit(p) ==
    /\ txn[p].pc = "commit"
    /\ rows' = InsertRow(rows, txn[p].id, "Alice", json_dumps(txn[p].vec))
    /\ firstAdd' = [i \in DOMAIN firstAdd \cup {txn[p].id} |->
                       IF i = txn[p].id THEN txn[p].vec ELSE firstAdd[i]]
    /\ txn' = [txn EXCEPT ![p].pc = "done"]
    /\ call' = ReturnedNone("add_user", txn[p].id, txn[p].vec, 0, "none")
    /\ UNCHANGED <<tableExists, camVars, wfVars>>

ConcBegin == \E p \in Procs : AddBegin(p)

ConcExecute == \E p \in Procs : AddExecute(p)

ConcLocked == \E p \in Procs : AddLocked(p)

ConcCommit == \E p \in Procs : AddCommit(p)

ConcNext == ConcInitialize \/ ConcBegin \/ ConcExecute \/ ConcLocked \/ ConcCommit

SpecConcurrent == Init /\ [][ConcNext]_vars

(***************************************************************************)
(* SpecMatch: find_best_match applied once to a gallery that add_user      *)
(* built, for every probe and threshold.                                   *)
(***************************************************************************)
Matched == call.op = "find_best_match"

MatchInitialize ==
    /\ ~Matched
    /\ initialize_database("none")
    /\ UNCHANGED <<camVars, wfVars>>

MatchEnroll ==
    /\ ~Matched
    /\ \E user_id \in UserIds \ StoredIds(rows), name \in Names, embedding \in Vectors :
        add_user(user_id, name, embedding, "none")
    /\ UNCHANGED <<camVars, wfVars>>

MatchProbe ==
    /\ ~Matched
    /\ \E new_embedding \in Vectors, threshold \in Thresholds :
        find_best_match(new_embedding, threshold, "none")
    /\ UNCHANGED <<camVars, wfVars>>

MatchNext == MatchInitialize \/ MatchEnroll \/ MatchProbe

SpecMatch == Init /\ [][MatchNext]_vars

(***************************************************************************)
(* register_new_user (admin.py).  One step per blocking call; the finally  *)
(* clause is a step of its own.  KeyboardInterrupt arrives in the blocking *)
(* calls: input(), read_frame(), detect_faces(), extract_face_embedding(). *)
(***************************************************************************)
EnrollNames == {"", "Alice", "alice", "Unknown Guy"}

\* user_id = name.replace(" ", "_").lower()
UserIdOf(name) ==
    CASE name = "Alice" -> "alice"
      [] name = "alice" -> "alice"
      [] name = "Unknown Guy" -> "unknown_guy"
      [] OTHER -> name

\* What extract_face_embedding may return to register_new_user.
EnrollVectors == StoreVectors \cup {<<>>}

Logged(e) == \E i \in 1..Len(log) : log[i] = e

\* The except KeyboardInterrupt clause: print, return.
Cancelled(events) ==
    /\ log' = log \o events \o <<"print:cancelled">>
    /\ exit' = "return"
    /\ pc' = "finally"

EnrollStart ==
    /\ pc = "start"
    /\ \E name \in EnrollNames, interrupt \in BOOLEAN :
          IF interrupt
          THEN /\ log' = <<"input:name">>
               /\ pc' = "raised"
               /\ UNCHANGED user_name
          ELSE IF name = ""
          THEN /\ log' = <<"input:name", "print:empty_name">>
               /\ pc' = "returned"
               /\ UNCHANGED user_name
          ELSE /\ log' = <<"input:name">>
               /\ user_name' = name
               /\ pc' = "connect"
    /\ UNCHANGED <<storeVars, camVars, exit, face_embedding, faces, face_idx, render>>

EnrollConnect ==
    /\ pc = "connect"
    /\ \E outcome \in ConnectOutcomes :
          /\ connect(outcome)
          /\ pc' = IF outcome = "opened" THEN "confirm" ELSE "connect_failed"
    /\ log' = Append(log, "CameraCapture")
    /\ UNCHANGED <<storeVars, exit, user_name, face_embedding, faces, face_idx, render>>

EnrollConnectFailed ==
    /\ pc = "connect_failed"
    /\ release
    /\ log' = log \o <<"print:connect_failed", "camera.release">>
    /\ pc' = "returned"
    /\ UNCHANGED <<storeVars, exit, user_name, face_embedding, faces, face_idx, render>>

EnrollConfirm ==
    /\ pc = "confirm"
    /\ \E interrupt \in BOOLEAN :
          IF interrupt
          THEN Cancelled(<<"input:confirm">>)
          ELSE /\ log' = log \o <<"input:confirm", "print:snapshot">>
               /\ pc' = "capture"
               /\ UNCHANGED exit
    /\ UNCHANGED <<storeVars, camVars, user_name, face_embedding, faces, face_idx, render>>

\* Where a failed capture goes: return inside the try block.
OnCaptureFailedSkipFinally == "returned"

OnCaptureFailedRetry == "capture"

OnCaptureFailed == "finally"

EnrollCapture ==
    /\ pc = "capture"
    /\ \/ /\ Cancelled(<<"camera.read_frame">>)
          /\ UNCHANGED camVars
       \/ \E outcome \in ReadOutcomes :
             /\ read_frame(outcome)
             /\ IF camCall'.ret
                THEN /\ log' = Append(log, "camera.read_frame")
                     /\ pc' = "detect"
                     /\ UNCHANGED exit
                ELSE /\ log' = log \o <<"camera.read_frame", "print:capture_failed">>
                     /\ exit' = "return"
                     /\ pc' = OnCaptureFailed
    /\ UNCHANGED <<storeVars, user_name, face_embedding, faces, face_idx, render>>

SeveralFacesAccepted(n) == n >= 1

\* if len(faces) == 1
SingleFace(n) == n = 1

EnrollDetect ==
    /\ pc = "detect"
    /\ \/ /\ log' = Append(log, "print:model_missing")
          /\ exit' = "return"
          /\ pc' = "finally"
          /\ UNCHANGED faces
       \/ /\ Cancelled(<<"detect_faces">>)
          /\ UNCHANGED faces
       \/ /\ log' = Append(log, "detect_faces")
          /\ exit' = "raise"
          /\ pc' = "finally"
          /\ UNCHANGED faces
       \/ \E n \in 0..MaxFaces :
             /\ faces' = n
             /\ IF SingleFace(n)
                THEN /\ log' = Append(log, "detect_faces")
                     /\ pc' = "extract"
                     /\ UNCHANGED exit
                ELSE /\ log' = log \o <<"detect_faces",
                                        IF n = 0 THEN "print:no_face" ELSE "print:many_faces">>
                     /\ exit' = "fallthrough"
                     /\ pc' = "finally"
    /\ UNCHANGED <<storeVars, camVars, user_name, face_embedding, face_idx, render>>

EnrollExtract ==
    /\ pc = "extract"
    /\ \/ /\ Cancelled(<<"extract_face_embedding">>)
          /\ UNCHANGED face_embedding
       \/ /\ \/ \E v \in EnrollVectors :
                   /\ face_embedding' = SomeEmbedding(v)
                   /\ log' = log \o <<"extract_face_embedding", "print:vector_extracted">>
             \/ /\ face_embedding' = NoEmbedding
                /\ log' = log \o <<"extract_face_embedding", "print:extraction_none">>
             \/ /\ face_embedding' = NoEmbedding
                /\ log' = log \o <<"extract_face_embedding", "print:extraction_error">>
          /\ exit' = "fallthrough"
          /\ pc' = "finally"
    /\ UNCHANGED <<storeVars, camVars, user_name, faces, face_idx, render>>

EmbeddingNeverNone(e) == TRUE

\* if embedding is not None
EmbeddingNotNone(e) == ~e.none

\* The finally clause, and what follows it.
EnrollFinally ==
    /\ pc = "finally"
    /\ release
    /\ IF exit = "fallthrough" /\ ~EmbeddingNotNone(face_embedding)
       THEN /\ log' = log \o <<"camera.release", "print:not_completed">>
            /\ pc' = "returned"
       ELSE /\ log' = Append(log, "camera.release")
            /\ pc' = CASE exit = "return" -> "returned"
                       [] exit = "raise" -> "raised"
                       [] OTHER -> "init_db"
    /\ UNCHANGED <<storeVars, exit, user_name, face_embedding, faces, face_idx, render>>

SaveReportGeneric(exc) ==
    IF exc = "" THEN "print:registered" ELSE "print:save_error"

\* The print after add_user, and the two except clauses of the save.
SaveReport(exc) ==
    CASE exc = "" -> "print:registered"
      [] exc = "IntegrityError" -> "print:duplicate"
      [] OTHER -> "print:save_error"

AfterSaveRetry(exc) ==
    IF exc \in {"", "IntegrityError"} THEN "returned" ELSE "add_user"

\* Whatever add_user did, the function ends after the report.
AfterSave(exc) == "returned"

EnrollInitDb ==
    /\ pc = "init_db"
    /\ \E fault \in DbFaults : initialize_database(fault)
    /\ IF call'.exc = ""
       THEN /\ log' = Append(log, "initialize_database")
            /\ pc' = "add_user"
       ELSE /\ log' = log \o <<"initialize_database", "print:save_error">>
            /\ pc' = "returned"
    /\ UNCHANGED <<camVars, exit, user_name, face_embedding, faces, face_idx, render>>

EnrollAddUser ==
    /\ pc = "add_user"
    /\ \E fault \in DbFaults :
          add_user(UserIdOf(user_name), user_name, face_embedding.vec, fault)
    /\ log' = log \o <<"add_user", SaveReport(call'.exc)>>
    /\ pc' = AfterSave(call'.exc)
    /\ UNCHANGED <<camVars, exit, user_name, face_embedding, faces, face_idx, render>>

\* The function has returned or raised: its CameraCapture object is dropped
\* and __del__ calls release().
Finalize ==
    /\ pc \in {"returned", "raised"}
    /\ IF Constructed THEN release ELSE UNCHANGED camVars
    /\ pc' = "collected"
    /\ UNCHANGED <<storeVars, exit, user_name, face_embedding, faces, face_idx, render, log>>

\* The script is run again, in a new process.
Rerun ==
    /\ pc = "collected"
    /\ cap' = 0
    /\ is_connected' = FALSE
    /\ hstate' = [h \in Handles |-> "unused"]
    /\ hreleases' = [h \in Handles |-> 0]
    /\ camCall' = NoCamCall
    /\ pc' = "start"
    /\ exit' = "none"
    /\ user_name' = ""
    /\ face_embedding' = NoEmbedding
    /\ faces' = -1
    /\ face_idx' = 0
    /\ render' = NoRender
    /\ log' = <<>>
    /\ UNCHANGED storeVars

EnrollNext ==
    \/ EnrollStart \/ EnrollConnect \/ EnrollConnectFailed \/ EnrollConfirm
    \/ EnrollCapture \/ EnrollDetect \/ EnrollExtract \/ EnrollFinally
    \/ EnrollInitDb \/ EnrollAddUser \/ Finalize \/ Rerun

SpecEnroll == Init /\ [][EnrollNext]_vars

(***************************************************************************)
(* main_loop (main.py).  One step per call of a collaborator; the finally  *)
(* clause is a step of its own.  log holds the events of the current       *)
(* frame.  Other processes (admin.py) may add users at any time.           *)
(***************************************************************************)
\* What extract_face_embedding may return to main_loop.
LoopVectors == StoreVectors \cup {<<0, 0>>, <<1>>}

\* label = "Неизвестный" and "Неизвестный (ошибка вектора)", transliterated.
LabelUnknown == "Neizvestnyj"

LabelVectorError == "Neizvestnyj (oshibka vektora)"

\* 'Неизвестный'.lower() in label.lower() or 'Unknown'.lower() in label.lower()
ContainsUnknown(label) == label \in {LabelUnknown, LabelVectorError, "unknown_guy"}

Color(label) == IF ContainsUnknown(label) THEN "COLOR_UNKNOWN" ELSE "COLOR_KNOWN"

\* draw_face_box_and_label(frame, box, label, confidence)
Drawn(kind, label) == [kind |-> kind, label |-> label, color |-> Color(label)]

\* Leaving the while loop: break and KeyboardInterrupt end in a normal
\* return, any other exception propagates.
Leave(how, events) ==
    /\ log' = log \o events
    /\ exit' = how
    /\ pc' = "finally"

LoopInitDb ==
    /\ pc = "start"
    /\ \E fault \in DbFaults : initialize_database(fault)
    /\ log' = <<"initialize_database">>
    /\ pc' = IF call'.exc = "" THEN "connect" ELSE "raised"
    /\ UNCHANGED <<camVars, exit, user_name, face_embedding, faces, face_idx, render>>

OnConnectFailedRetry == "connect"

\* if not camera.is_connected: logging.error(...); return
OnConnectFailed == "returned"

LoopConnect ==
    /\ pc = "connect"
    /\ \E outcome \in ConnectOutcomes :
          /\ connect(outcome)
          /\ IF outcome = "opened"
             THEN /\ log' = Append(log, "CameraCapture")
                  /\ pc' = "read"
             ELSE /\ log' = log \o <<"CameraCapture", "logging.error:connect_failed">>
                  /\ pc' = OnConnectFailed
    /\ UNCHANGED <<storeVars, exit, user_name, face_embedding, faces, face_idx, render>>

LoopRead ==
    /\ pc = "read"
    /\ \/ /\ log' = <<"camera.read_frame", "print:ctrl_c">>
          /\ exit' = "return"
          /\ pc' = "finally"
          /\ UNCHANGED camVars
       \/ \E outcome \in ReadOutcomes :
             /\ read_frame(outcome)
             /\ IF camCall'.ret
                THEN /\ log' = <<"camera.read_frame">>
                     /\ pc' = "detect"
                     /\ UNCHANGED exit
                ELSE /\ log' = <<"camera.read_frame", "logging.warning:capture_failed">>
                     /\ exit' = "return"
                     /\ pc' = "finally"
    /\ UNCHANGED <<storeVars, user_name, face_embedding, faces, face_idx, render>>

LoopDetect ==
    /\ pc = "detect"
    /\ \/ /\ Leave("return", <<"detect_faces", "print:ctrl_c">>)
          /\ UNCHANGED <<faces, face_idx>>
       \/ /\ Leave("raise", <<"detect_faces">>)
          /\ UNCHANGED <<faces, face_idx>>
       \/ \E n \in 0..MaxFaces :
             /\ faces' = n
             /\ face_idx' = 0
             /\ log' = Append(log, "detect_faces")
             /\ pc' = IF n = 0 THEN "read" ELSE "face"
             /\ UNCHANGED exit
    /\ UNCHANGED <<storeVars, camVars, user_name, face_embedding, render>>

\* for face_info in faces: the next face is done, or the frame is.
NextFace ==
    /\ face_idx' = face_idx + 1
    /\ pc' = IF face_idx + 1 = faces THEN "read" ELSE "face"
    /\ UNCHANGED exit

VectorErrorNotDrawn ==
    /\ log' = log \o <<"extract_face_embedding", "logging.warning:no_vector">>
    /\ UNCHANGED render

\* The else branch of "if embedding is not None".
AnnotateVectorError ==
    /\ render' = Drawn("vector_error", LabelVectorError)
    /\ log' = log \o <<"extract_face_embedding", "logging.warning:no_vector",
                       "draw_face_box_and_label">>

LoopFace ==
    /\ pc = "face"
    /\ \/ /\ Leave("return", <<"extract_face_embedding", "print:ctrl_c">>)
          /\ UNCHANGED <<storeVars, face_embedding, face_idx, render>>
       \/ /\ Leave("raise", <<"extract_face_embedding">>)
          /\ UNCHANGED <<storeVars, face_embedding, face_idx, render>>
       \/ /\ face_embedding' = NoEmbedding
          /\ AnnotateVectorError
          /\ NextFace
          /\ UNCHANGED storeVars
       \/ \E v \in LoopVectors, fault \in {"none", "connect", "execute"} :
             /\ face_embedding' = SomeEmbedding(v)
             /\ find_best_match(v, verification_threshold, fault)
             /\ IF call'.exc # ""
                THEN /\ Leave("raise", <<"extract_face_embedding", "find_best_match">>)
                     /\ UNCHANGED <<face_idx, render>>
                ELSE /\ render' = IF call'.rnone
                                  THEN Drawn("unknown", LabelUnknown)
                                  ELSE Drawn("match", call'.rid)
                     /\ log' = log \o <<"extract_face_embedding", "find_best_match",
                                        IF call'.rnone THEN "print:unknown" ELSE "print:found",
                                        "draw_face_box_and_label">>
                     /\ NextFace
    /\ UNCHANGED <<camVars, user_name, faces>>

LoopCleanupSkipped == UNCHANGED camVars

\* finally: camera.release()
LoopCleanup == release

LoopFinally ==
    /\ pc = "finally"
    /\ LoopCleanup
    /\ log' = Append(log, "camera.release")
    /\ pc' = IF exit = "raise" THEN "raised" ELSE "returned"
    /\ UNCHANGED <<storeVars, exit, user_name, face_embedding, faces, face_idx, render>>

\* admin.py, run by somebody else while the loop runs, registers a user.
LoopEnrollment ==
    /\ pc \in {"read", "detect", "face"}
    /\ tableExists
    /\ \E user_id \in UserIds \ StoredIds(rows), embedding \in StoreVectors :
          add_user(user_id, "Alice", embedding, "none")
    /\ UNCHANGED <<camVars, wfVars>>

LoopNext ==
    \/ LoopInitDb \/ LoopConnect \/ LoopRead \/ LoopDetect \/ LoopFace
    \/ LoopFinally \/ LoopEnrollment \/ Finalize \/ Rerun

SpecLoop == Init /\ [][LoopNext]_vars

(***************************************************************************)
(* SpecWorkflows: the two scripts run one after the other, in any order,   *)
(* against the same database file.  A run of admin.py is the one whose log *)
(* starts with the name prompt.                                            *)
(***************************************************************************)
Enrolling == pc = "start" \/ Logged("input:name")

Recognizing == pc = "start" \/ ~Logged("input:name")

\* Users are added by the runs of admin.py themselves.
RecognizeNext ==
    \/ LoopInitDb \/ LoopConnect \/ LoopRead \/ LoopDetect \/ LoopFace
    \/ LoopFinally \/ Finalize \/ Rerun

WorkflowsNext == (Enrolling /\ EnrollNext) \/ (Recognizing /\ RecognizeNext)

SpecWorkflows == Init /\ [][WorkflowsNext]_vars

(***************************************************************************)
(* Properties of the matcher (SpecMatch)                                   *)
(***************************************************************************)
\* The gallery vector stored in row i.
GalleryVector(i) == json_loads(rows[i].embedding_json)

\* The cosine distance of the last probe to row i.
DistanceTo(i) ==
    CosineDistance(Dot(call.vec, GalleryVector(i)), Norm(call.vec), Norm(GalleryVector(i)))

\* The rows the scan does not skip for the last probe.
NonSkipped ==
    {i \in 1..Len(rows) : Dot(call.vec, call.vec) # 0
                          /\ Dot(GalleryVector(i), GalleryVector(i)) # 0}

\* The distances of the non-skipped rows, and the least of them.
Distances == {DistanceTo(i) : i \in NonSkipped}

MinDistance == CHOOSE d \in Distances : \A e \in Distances : d <= e

MatchReturned == Matched /\ call.exc = "" /\ call.fault = "none" /\ tableExists

\* C1: find_best_match returns a candidate id only when the minimum cosine
\* distance over the non-skipped gallery entries is strictly less than the
\* threshold; when the minimum equals or exceeds the threshold it returns
\* (None, None).
C1_StrictThreshold ==
    MatchReturned =>
        /\ ~call.rnone => NonSkipped # {} /\ MinDistance < call.thr
        /\ NonSkipped # {} /\ MinDistance >= call.thr =>
              call.rnone /\ call.rid = NoneId

\* C1 witness: the minimum distance equals the threshold exactly and the
\* result is no-match.
C1_Witness ==
    /\ MatchReturned
    /\ NonSkipped # {}
    /\ MinDistance = call.thr
    /\ call.rnone
\* C2: a gallery entry of zero norm is never the returned candidate; a probe
\* of zero norm gets no-match; and find_best_match never divides by zero.
C2_ZeroNormExcluded ==
    Matched /\ call.fault = "none" =>
        /\ ~call.divzero
        /\ ~call.rnone =>
              /\ call.rid \in StoredIds(rows)
              /\ Norm(GetEmbedding(rows, call.rid)[2]) # 0
        /\ call.exc = "" /\ Norm(call.vec) = 0 => call.rnone /\ call.rid = NoneId

\* C2 witness: the gallery holds a zero-norm entry ahead of a nonzero one, and
\* the probe is matched to the nonzero entry at distance 0.
C2_Witness ==
    /\ MatchReturned
    /\ ~call.rnone
    /\ call.rdist = 0
    /\ \E i \in 1..Len(rows) :
          /\ Norm(GalleryVector(i)) = 0
          /\ i < SelectRow(rows, call.rid)
(***************************************************************************)
(* Properties of the identity store (SpecStore)                            *)
(***************************************************************************)
\* The step is a call of add_user, without a storage fault, with a non-empty
\* vector and an id that is already stored.
DuplicateAddStep(user_id) ==
    /\ call'.op = "add_user"
    /\ call'.id = user_id
    /\ call'.fault = "none"
    /\ Len(call'.vec) > 0
    /\ user_id \in StoredIds(rows)

\* C3: add_user with an id that is already stored raises IntegrityError and
\* leaves the relation as it was: get_user_embedding(id) still returns the
\* vector of the first add.
C3_DuplicateAddFails ==
    [][\A user_id \in UserIds :
          DuplicateAddStep(user_id) =>
              /\ call'.exc = "IntegrityError"
              /\ rows' = rows
              /\ tableExists' = tableExists
              /\ GetEmbedding(rows', user_id) = <<TRUE, firstAdd[user_id]>>]_vars

\* C3 witness: a second add_user of a stored id, with another vector, has
\* raised IntegrityError while another identity is stored too.
C3_Witness ==
    /\ call.op = "add_user"
    /\ call.exc = "IntegrityError"
    /\ call.id \in StoredIds(rows)
    /\ call.vec # firstAdd[call.id]
    /\ GetEmbedding(rows, call.id)[2] = firstAdd[call.id]
    /\ Len(rows) > 1
(***************************************************************************)
(* Properties of CameraCapture (SpecCam)                                   *)
(***************************************************************************)
\* The last call was read_frame on a connected session and the frame pull
\* failed: read() gave no frame, or raised.
FailedPull ==
    /\ camCall.op = "read_frame"
    /\ camCall.was_connected
    /\ camCall.outcome \in {"noframe_open", "noframe_closed", "raises"}

\* C6 as claimed: after a failed frame pull on a connected session read_frame
\* has returned (False, None) and is_connected is false.
C6_Original == FailedPull => ~camCall.ret /\ ~is_connected

\* C6 as the code has it: after a failed frame pull on a connected session
\* read_frame has returned (False, None); is_connected is what isOpened()
\* answered when read() gave no frame (false only when the handle is no longer
\* open), and is unchanged (true) when read() or isOpened() raised.
C6_FailedReadFollowsIsOpened ==
    FailedPull =>
        /\ ~camCall.ret
        /\ cap # 0
        /\ camCall.outcome = "noframe_closed" => ~is_connected /\ hstate[cap] = "closed"
        /\ camCall.outcome = "noframe_open" => is_connected /\ hstate[cap] = "open"
        /\ camCall.outcome = "raises" => is_connected

\* C6 witness: a failed pull after which isOpened() answered false.
C6_Witness == FailedPull /\ camCall.outcome = "noframe_closed" /\ ~is_connected

\* C7: release() leaves is_connected false and no handle, from every state;
\* a release right after a release changes nothing.
C7_ReleaseIdempotent ==
    [][camCall'.op = "release" =>
          /\ ~is_connected'
          /\ cap' = 0
          /\ \A h \in Handles : hreleases'[h] <= 1
          /\ camCall.op = "release" =>
                UNCHANGED <<cap, is_connected, hstate, hreleases>>]_vars

\* C7 witness: release called twice in succession on a session that was
\* connected; the handle was released once.
C7_Witness ==
    /\ camCall.op = "release"
    /\ camCall.prev = "release"
    /\ ~is_connected
    /\ \E h \in Handles : hreleases[h] = 1 /\ hstate[h] = "released"

\* C8: connect() returns normally; when the resource opens is_connected is
\* true and the open handle is kept; when it does not open, or opening
\* raises, is_connected is false, the handle this call created is released
\* and cap is None.
C8_ConnectOutcome ==
    camCall.op = "connect" =>
        /\ camCall.outcome = "opened" =>
              is_connected /\ cap = camCall.handle /\ hstate[cap] = "open"
        /\ camCall.outcome # "opened" =>
              /\ ~is_connected
              /\ cap = 0
              /\ camCall.handle # 0 =>
                    hstate[camCall.handle] = "released" /\ hreleases[camCall.handle] = 1

\* C8 witness: a connect that created a handle which did not open.
C8_Witness ==
    /\ camCall.op = "connect"
    /\ camCall.outcome = "notopened"
    /\ camCall.handle # 0
    /\ hstate[camCall.handle] = "released"

\* The step is a read_frame on a session that is not connected or has no handle.
ReadWhileNotConnected ==
    /\ camCall'.op = "read_frame"
    /\ ~is_connected \/ cap = 0

\* C9 as claimed: read_frame on a session that is not connected returns
\* (False, None), leaves is_connected false and leaves the handle absent.
C9_Original ==
    [][ReadWhileNotConnected => ~camCall'.ret /\ ~is_connected' /\ cap' = 0]_vars

\* C9 as the code has it: read_frame on a session that is not connected
\* returns (False, None) and leaves is_connected false and the handle as it
\* was (absent after release or a failed connect, still held after a failed
\* read); is_connected becomes true only in a connect().
C9_NoImplicitReconnect ==
    [][/\ ReadWhileNotConnected =>
             /\ ~camCall'.ret
             /\ ~is_connected'
             /\ UNCHANGED <<cap, hstate, hreleases>>
       /\ ~is_connected /\ is_connected' => camCall'.op = "connect"]_vars

\* C9 witness: read_frame was called on a released session and on a session
\* whose read had failed, and the session is still not connected.
C9_Witness ==
    /\ camCall.op = "read_frame"
    /\ camCall.outcome = "not_connected"
    /\ ~camCall.ret
    /\ ~is_connected
    /\ camCall.prev \in {"release", "read_frame"}

\* The handles this object created that are neither released nor unused.
Unreleased == {h \in Handles : hstate[h] \in {"open", "closed"}}

\* C29: over any sequence of connect, read_frame and release at most one
\* handle created by the object is unreleased, and when release() has
\* returned every handle the object created has been released.
C29_NoHandleLeaked ==
    /\ Cardinality(Unreleased) <= 1
    /\ camCall.op = "release" => Unreleased = {}

(***************************************************************************)
(* Properties of register_new_user                                         *)
(***************************************************************************)
EnrollEnded == pc \in {"returned", "raised"}

\* C4: on every path out of register_new_user on which the camera object was
\* created (failed connection, failed capture, missing model, a detector
\* exception, a cancellation, or completion), the capture handle has been
\* released and the camera is disconnected when the function ends, before
\* the object's finalizer runs.
C4_CameraReleasedOnEveryPath ==
    (EnrollEnded /\ Logged("CameraCapture")) =>
        /\ cap = 0
        /\ ~is_connected
        /\ \A h \in Handles : hstate[h] \in {"unused", "released"}

\* A run cancelled by the user after the camera was opened has ended.
C4_Witness ==
    /\ pc = "returned"
    /\ Logged("print:cancelled")
    /\ \E h \in Handles : hstate[h] = "released" /\ hreleases[h] = 1

NotOneFace == faces = 0 \/ faces > 1

\* C10: when detection finds zero faces or more than one face, every step of
\* the run leaves the store as it was, extraction is not attempted, neither
\* initialize_database nor add_user is called, and the run ends with the
\* face-count report followed by "registration not completed".
C10_NoSingleFaceAborts ==
    [][NotOneFace' =>
          /\ rows' = rows
          /\ tableExists' = tableExists
          /\ ~Logged("extract_face_embedding")'
          /\ ~Logged("initialize_database")'
          /\ ~Logged("add_user")'
          /\ face_embedding'.none
          /\ pc' \in {"finally", "returned", "collected"}
          /\ (faces' = 0 => Logged("print:no_face")')
          /\ (faces' > 1 => Logged("print:many_faces")')
          /\ (pc' = "returned" => log'[Len(log')] = "print:not_completed")]_vars

\* A run that saw several faces has ended while the store holds a user.
C10_Witness ==
    /\ pc = "returned"
    /\ faces > 1
    /\ Logged("print:many_faces")
    /\ Len(rows) > 0

\* The extractor returned None, or raised.
ExtractionFailed == Logged("print:extraction_none") \/ Logged("print:extraction_error")

\* C11: when extract_face_embedding returns None or raises during
\* enrollment, the failure is reported, every later step of the run leaves
\* the store as it was, neither initialize_database nor add_user is called,
\* and the run ends with "registration not completed".
C11_ExtractionFailureAborts ==
    [][ExtractionFailed' =>
          /\ rows' = rows
          /\ tableExists' = tableExists
          /\ face_embedding'.none
          /\ ~Logged("initialize_database")'
          /\ ~Logged("add_user")'
          /\ ~Logged("print:registered")'
          /\ pc' \in {"finally", "returned", "collected"}
          /\ (pc' = "returned" => log'[Len(log')] = "print:not_completed")]_vars

\* A run whose extractor raised has ended while the store holds a user.
C11_Witness ==
    /\ pc = "returned"
    /\ Logged("print:extraction_error")
    /\ log[Len(log)] = "print:not_completed"
    /\ Len(rows) > 0

\* The step in which the save of register_new_user ends.
SaveEnds == pc \in {"init_db", "add_user"} /\ pc' = "returned"

\* C12: when the save of an enrollment ends, a duplicate identity is
\* reported as "already exists", every other failure of the save as a save
\* error, success as registered; a duplicate without any other fault is
\* always reported as such, and a failed save leaves the rows unchanged.
C12_DuplicateReportedDistinctly ==
    [][SaveEnds =>
          LET report == log'[Len(log')]
              duplicate == UserIdOf(user_name) \in StoredIds(rows)
          IN  /\ (report = "print:duplicate") = (call'.exc = "IntegrityError")
              /\ (report = "print:save_error") = (call'.exc \notin {"", "IntegrityError"})
              /\ (report = "print:registered") = (call'.exc = "")
              /\ (report = "print:duplicate" => duplicate)
              /\ (/\ pc = "add_user" /\ duplicate /\ call'.fault = "none"
                  /\ face_embedding.vec # <<>>) => report = "print:duplicate"
              /\ (call'.exc # "" => rows' = rows)]_vars

\* An enrollment under an id that is already stored has been reported.
C12_Witness ==
    /\ pc = "returned"
    /\ log[Len(log)] = "print:duplicate"
    /\ call.op = "add_user"
    /\ call.exc = "IntegrityError"
    /\ UserIdOf(user_name) \in StoredIds(rows)

\* The messages that tell the operator why an enrollment was aborted.
AbortReports ==
    {"print:capture_failed", "print:model_missing", "print:no_face",
     "print:many_faces", "print:extraction_none", "print:extraction_error",
     "print:cancelled"}

\* C16 (as stated): in enrollment the camera release precedes the report of
\* the abort reason: every abort message in the run's log has a
\* camera.release before it.
C16_ReleaseBeforeReport ==
    \A i \in 1..Len(log) :
        log[i] \in AbortReports => \E j \in 1..(i - 1) : log[j] = "camera.release"

\* The positions of the frame reads in the log of the run.
Reads == {i \in 1..Len(log) : log[i] = "camera.read_frame"}

\* The operator has confirmed (Enter at the prompt, no interrupt).
Confirmed == Logged("print:snapshot")

\* C26: in register_new_user a frame is read only after the operator's
\* confirmation has been received, at most one read is attempted, and once
\* the run has passed the capture step after a confirmation exactly one was.
C26_CaptureGatedByConfirmation ==
    /\ \A i \in Reads :
          \E j \in 1..(i - 2) : log[j] = "input:confirm" /\ log[j + 1] = "print:snapshot"
    /\ Cardinality(Reads) <= 1
    /\ camCall.op = "read_frame" => Confirmed
    /\ ~Confirmed => pc # "capture"
    /\ (Confirmed /\ pc # "capture") => Cardinality(Reads) = 1

\* A confirmed run whose single frame read failed has ended.
C26_Witness ==
    /\ pc = "returned"
    /\ Confirmed
    /\ Logged("print:capture_failed")
    /\ Cardinality(Reads) = 1

\* The positions of the add_user calls in the log of the run.
AddCalls == {i \in 1..Len(log) : log[i] = "add_user"}

\* The camera is released: no handle, not connected, nothing left open.
CameraReleased ==
    /\ cap = 0
    /\ ~is_connected
    /\ \A h \in Handles : hstate[h] \in {"unused", "released"}

\* C28: a run of register_new_user calls add_user at most once, only after
\* exactly one face was detected and a vector was extracted, and with the
\* camera already released; the rows change only in that call, by one row.
C28_AtMostOneAddAfterRelease ==
    [][/\ Cardinality(AddCalls)' <= 1
       /\ (pc' = "add_user" \/ AddCalls' # {}) =>
             /\ faces' = 1
             /\ ~face_embedding'.none
             /\ CameraReleased'
             /\ \E j, k \in 1..Len(log') :
                   /\ j < k
                   /\ log'[j] = "print:vector_extracted"
                   /\ log'[k] = "camera.release"
                   /\ \A i \in AddCalls' : k < i
       /\ rows' # rows =>
             /\ pc = "add_user"
             /\ AddCalls = {}
             /\ Len(rows') = Len(rows) + 1
             /\ rows'[Len(rows')].user_id = UserIdOf(user_name)]_vars

\* A run has registered a second user.
C28_Witness ==
    /\ pc = "returned"
    /\ Logged("print:registered")
    /\ Cardinality(AddCalls) = 1
    /\ Len(rows) = 2
    /\ rows[2].user_id = UserIdOf(user_name)
    /\ CameraReleased

\* The last call is a find_best_match of the running loop that returned
\* without a storage fault; no add_user has committed since.
LoopMatchReturned ==
    /\ pc \in {"read", "detect", "face"}
    /\ MatchReturned

\* C31: every probe of the loop is matched against the rows committed at
\* the time of the call: a committed row whose distance is below the
\* threshold makes the probe match, with a distance not above that row's,
\* and a returned id is the id of a committed row at the returned distance.
C31_MatchesCurrentGallery ==
    LoopMatchReturned =>
        /\ \A i \in NonSkipped :
              DistanceTo(i) < call.thr => ~call.rnone /\ call.rdist <= DistanceTo(i)
        /\ ~call.rnone =>
              \E i \in NonSkipped : rows[i].user_id = call.rid /\ call.rdist = DistanceTo(i)

\* C31 witness: in one frame a face was not matched, then an identity was
\* enrolled by another process, then the next face matched that identity.
C31_Witness ==
    /\ LoopMatchReturned
    /\ Logged("print:unknown")
    /\ Logged("print:found")
    /\ ~call.rnone
    /\ Len(rows) = 1
    /\ call.rid = rows[1].user_id

\* C32: a face is drawn in the known colour exactly when find_best_match
\* returned a match for it, and in the unknown colour when it returned no
\* match or no vector was extracted, whatever the matched id is.
C32_ColourFollowsMatch ==
    render.kind # "none" =>
        /\ render.kind = "match" <=> render.color = "COLOR_KNOWN"
        /\ render.kind # "match" <=> render.color = "COLOR_UNKNOWN"

\* The rows stored under an id.
RowsOf(user_id) == {i \in 1..Len(rows) : rows[i].user_id = user_id}

\* Both processes have finished add_user calls that overlapped and named
\* the same id.
RacedOnOneId ==
    /\ \A p \in Procs : txn[p].pc = "done" /\ txn[p].conc
    /\ \A p, q \in Procs : txn[p].id = txn[q].id

\* C30: of two concurrent add_user calls with the same id exactly one
\* returns and the other raises IntegrityError; the store then holds one
\* row for the id, with the vector of the call that returned.
C30_ExactlyOneWins ==
    RacedOnOneId =>
        \E w \in Procs :
            /\ txn[w].exc = ""
            /\ \A l \in Procs \ {w} : txn[l].exc = "IntegrityError"
            /\ Cardinality(RowsOf(txn[w].id)) = 1
            /\ GetEmbedding(rows, txn[w].id) = <<TRUE, txn[w].vec>>

(***************************************************************************)
(* Properties of main_loop                                                 *)
(***************************************************************************)
\* The while loop was entered and has been left.
LoopExited == exit # "none" /\ pc \in {"returned", "raised", "collected"}

\* C5: once main_loop has left its loop (failed read, keyboard interrupt or
\* an exception of a collaborator), the capture handle it opened has been
\* released exactly once, and this stays so after the camera object's
\* finalizer has run.
C5_ReleasedExactlyOnce ==
    LoopExited =>
        /\ \E h \in Handles : hstate[h] = "released"
        /\ \A h \in Handles : hstate[h] # "unused" =>
              hstate[h] = "released" /\ hreleases[h] = 1

\* An exception of a collaborator ended the loop and the finalizer has run.
C5_Witness ==
    /\ pc = "collected"
    /\ exit = "raise"
    /\ \E h \in Handles : hreleases[h] = 1

\* A step of the per-face body in which the extractor returned, with a
\* vector or with None (no interrupt, no exception of the extractor).
FaceProcessed ==
    /\ pc = "face"
    /\ pc' # pc \/ face_idx' # face_idx
    /\ ~Logged("print:ctrl_c")'
    /\ log' # log \o <<"extract_face_embedding">>

\* C13 (as stated): a per-face failure never halts the loop.  Whenever the
\* extractor has returned for a face, the loop goes on to the next face of
\* the frame or, after the last one, to the next read; and a face without a
\* vector is annotated as unknown with the vector-error label.
C13_PerFaceFailureNeverHalts ==
    [][FaceProcessed =>
          /\ face_idx' = face_idx + 1
          /\ pc' = IF face_idx' = faces THEN "read" ELSE "face"
          /\ face_embedding'.none => render' = Drawn("vector_error", LabelVectorError)]_vars

\* A step of the per-face body in which find_best_match met a storage fault.
MatchFaulted ==
    /\ pc = "face"
    /\ face_idx' = face_idx + 1 \/ pc' = "finally"
    /\ call'.op = "find_best_match"
    /\ call'.fault # "none"
    /\ Logged("find_best_match")'

\* C14 (as stated): no error kind is silently swallowed.  When a storage
\* fault occurs while find_best_match reads the gallery, main_loop does not
\* get the ordinary no-match result (None, None) and does not annotate the
\* face as an ordinary unknown.
C14_StorageFaultObservable ==
    [][MatchFaulted =>
          /\ ~(call'.exc = "" /\ call'.rnone)
          /\ face_idx' = face_idx + 1 => render' # Drawn("unknown", LabelUnknown)]_vars

(***************************************************************************)
(* Properties of the store under faults                                    *)
(***************************************************************************)
\* The last call was one of the three store functions and a storage fault
\* occurred in it: the database could not be opened, a statement failed, or
\* the commit of an accepted INSERT failed.
StorageFaultOccurred ==
    /\ call.op \in {"initialize_database", "add_user", "get_user_embedding"}
    /\ call.op = "add_user" => call.vec # <<>>
    /\ \/ call.fault \in {"connect", "execute"}
       \/ call.fault = "commit" /\ tableExists /\ call.id \notin StoredIds(rows)

\* C15 (as stated): a storage fault in initialize_database, add_user or
\* get_user_embedding, a failure to open the database included, reaches the
\* caller as sqlite3.Error and as no other exception.
C15_FaultIsPersistenceError ==
    StorageFaultOccurred => call.exc = "sqlite3.Error"

\* C17: add_user with an empty vector raises ValueError before any
\* persistence step: whatever fault the database would show (a failure to
\* open it included) the outcome is ValueError, and the rows and the table
\* are as they were.
C17_EmptyVectorRejectedFirst ==
    [][(call'.op = "add_user" /\ call'.vec = <<>>) =>
          /\ call'.exc = "ValueError"
          /\ rows' = rows
          /\ tableExists' = tableExists
          /\ firstAdd' = firstAdd]_vars

\* add_user was given an empty vector and a database that cannot be opened,
\* for an id that is not stored yet, while the table exists.
C17_Witness ==
    /\ call.op = "add_user"
    /\ call.vec = <<>>
    /\ call.fault = "connect"
    /\ call.exc = "ValueError"
    /\ tableExists
    /\ call.id \notin StoredIds(rows)

\* C18: the gallery is append-only.  Every id whose add_user has succeeded
\* is still stored, its row decodes to the vector that was added, and a
\* get_user_embedding for it that returns, returns that vector.
C18_AppendOnly ==
    \A user_id \in DOMAIN firstAdd :
        /\ user_id \in StoredIds(rows)
        /\ GetEmbedding(rows, user_id) = <<TRUE, firstAdd[user_id]>>
        /\ (call.op = "get_user_embedding" /\ call.id = user_id /\ call.exc = "") =>
              ~call.rnone /\ call.rvec = firstAdd[user_id]

\* The first user's vector is read back after a second user was added.
C18_Witness ==
    /\ Len(rows) = 2
    /\ call.op = "get_user_embedding"
    /\ call.exc = ""
    /\ call.id = rows[1].user_id
    /\ call.id \in DOMAIN firstAdd
    /\ call.rvec = firstAdd[call.id]
    /\ call.rvec # GetEmbedding(rows, rows[2].user_id)[2]

(***************************************************************************)
(* Further properties of the matcher                                       *)
(***************************************************************************)
\* C19: on an empty gallery, or one in which every entry is skipped,
\* find_best_match returns (None, None) for every probe and every
\* threshold, an infinite threshold included.
C19_NoCandidateNoMatch ==
    (MatchReturned /\ NonSkipped = {}) =>
        call.rnone /\ call.rid = NoneId /\ ~call.divzero

\* Every entry of a non-empty gallery is skipped for a nonzero probe, the
\* threshold is infinite, and the result is no-match.
C19_Witness ==
    /\ MatchReturned
    /\ Len(rows) > 0
    /\ NonSkipped = {}
    /\ Dot(call.vec, call.vec) # 0
    /\ call.thr = Inf
    /\ call.rnone

\* The largest error, in units of 1/Scale, that the roundings of the norm,
\* the product and the quotient leave in the distance of a vector to itself.
RoundingError == 1

\* A nonzero probe was matched against a gallery whose only entry is the
\* probe itself, with a positive threshold.
SelfMatch ==
    /\ MatchReturned
    /\ Len(rows) = 1
    /\ call.vec = GalleryVector(1)
    /\ Dot(call.vec, call.vec) # 0
    /\ call.thr > 0

\* The stored id is returned with a distance that is zero up to rounding.
SelfMatched ==
    /\ ~call.rnone
    /\ call.rid = rows[1].user_id
    /\ call.rdist >= -RoundingError
    /\ call.rdist <= RoundingError

\* C20 (as stated): for any nonzero vector a and any threshold t > 0,
\* matching a against the gallery {id: a} returns id, with distance 0 up to
\* rounding.
C20_Original == SelfMatch => SelfMatched

\* C20 (amended): the same for every threshold above the rounding error of
\* the computed distance; at or below it the result may be no-match, and is
\* so exactly when the rounded distance does not lie below the threshold.
C20_SelfMatchAboveRounding ==
    SelfMatch =>
        /\ call.thr > RoundingError => SelfMatched
        /\ call.rnone => /\ call.thr <= RoundingError
                         /\ DistanceTo(1) >= call.thr
                         /\ DistanceTo(1) <= RoundingError

\* A vector whose distance to itself is rounded to one unit above zero is
\* matched to itself under the configured threshold.
C20_Witness ==
    /\ SelfMatch
    /\ call.thr = verification_threshold
    /\ DistanceTo(1) = RoundingError
    /\ SelfMatched

\* The frame read of the current cycle has failed.
ReadFailed == Logged("logging.warning:capture_failed")

\* The step leaves the while loop.
LoopLeft == pc \in {"read", "detect", "face"} /\ pc' = "finally"

\* An exception of the detector or of the extractor, which are not part of
\* this repository, is what leaves the loop.
ExternalRaised ==
    /\ exit' = "raise"
    /\ log'[Len(log')] \in {"detect_faces", "extract_face_embedding"}

\* C21 (as stated): after a failed frame read the loop ends without retry,
\* with no further read, detection, extraction, matching or rendering until
\* the function has ended; and the loop is left only by a failed read or by
\* an interrupt (exceptions of the external detector and extractor aside).
C21_EndsOnlyOnReadFailureOrInterrupt ==
    [][/\ ReadFailed =>
             \/ pc' = "start"
             \/ /\ pc' \in {"returned", "collected"}
                /\ camCall'.op = "release"
                /\ call' = call
                /\ render' = render
                /\ faces' = faces
                /\ face_embedding' = face_embedding
       /\ LoopLeft => ReadFailed' \/ Logged("print:ctrl_c")' \/ ExternalRaised]_vars

\* The number of calls of the renderer in the current cycle.
Draws(l) == Cardinality({i \in 1..Len(l) : l[i] = "draw_face_box_and_label"})

ConnectionFailed ==
    \/ pc = "connect_failed"
    \/ Logged("print:connect_failed")
    \/ Logged("logging.error:connect_failed")

\* C23: after the connection attempt of the constructor has failed, every
\* step of the run (of register_new_user and of main_loop alike) leaves the
\* store as it was, calls neither connect nor read_frame, leaves the camera
\* disconnected without a handle, and the run ends with the failure
\* reported.
C23_FailedConnectionNotRetried ==
    [][ConnectionFailed =>
          \/ pc' = "start"
          \/ /\ camCall'.op = "release"
             /\ cap' = 0
             /\ ~is_connected'
             /\ rows' = rows
             /\ tableExists' = tableExists
             /\ call' = call
             /\ pc' \in {"returned", "collected"}
             /\ ConnectionFailed'
             /\ ~Logged("camera.read_frame")']_vars

\* A run of main_loop has ended on a failed connection, after a run of
\* register_new_user had stored a user.
C23_Witness ==
    /\ pc = "collected"
    /\ Logged("logging.error:connect_failed")
    /\ Len(rows) > 0
    /\ \A h \in Handles : hstate[h] # "open"

(***************************************************************************)
(* Properties of the store: round trip and initialisation                  *)
(***************************************************************************)
\* add_user has just stored a new id, and get_user_embedding of that id is
\* the next call and returns.
AddThenGet ==
    /\ call.op = "add_user"
    /\ call.exc = ""
    /\ call'.op = "get_user_embedding"
    /\ call'.exc = ""
    /\ call'.id = call.id

C25_InitializeIdempotent ==
    [][call'.op = "initialize_database" =>
          /\ rows' = rows
          /\ firstAdd' = firstAdd
          /\ tableExists => tableExists'
          /\ call'.exc = "" => tableExists']_vars

\* initialize_database has returned on a database that holds two users.
C25_Witness ==
    /\ call.op = "initialize_database"
    /\ call.exc = ""
    /\ tableExists
    /\ Len(rows) = 2
    /\ DOMAIN firstAdd = StoredIds(rows)

\* The row whose id find_best_match returned.
ReturnedRow == CHOOSE i \in 1..Len(rows) : rows[i].user_id = call.rid

\* C27: the candidate that find_best_match returns attains the minimum
\* distance over the non-skipped entries, the returned distance is that
\* minimum, and no entry earlier in scan order attains it as well.
C27_FirstMinimumWins ==
    (MatchReturned /\ ~call.rnone) =>
        /\ ReturnedRow \in NonSkipped
        /\ DistanceTo(ReturnedRow) = MinDistance
        /\ call.rdist = MinDistance
        /\ \A j \in NonSkipped : DistanceTo(j) = MinDistance => j >= ReturnedRow

\* Two entries are tied at the minimum and the first one was returned.
C27_Witness ==
    /\ MatchReturned
    /\ ~call.rnone
    /\ Len(rows) = 2
    /\ NonSkipped = {1, 2}
    /\ DistanceTo(1) = DistanceTo(2)
    /\ call.rid = rows[1].user_id

====
